---- MODULE Spec2Model ----
(***************************************************************************)
(* UserClient (src/src/gte_py/clients/user.py): the account facade of the  *)
(* GTE python SDK.  Every public coroutine is a short sequence of calls    *)
(* into a collaborator (token client, CLOB factory, CLOB manager, REST     *)
(* client).  A coroutine is modelled as one action per segment between two *)
(* await points; the awaited collaborator call is recorded in `calls` when *)
(* it is issued and is completed by an environment action.                 *)
(***************************************************************************)
EXTENDS Integers, Sequences, FiniteSets

\* Largest deposit / withdraw amount and largest initial on-chain balance.
MaxAmount == 3

VARIABLES
    clob_factory,   \* self._clob.clob_factory: "None" until CLOBClient.init()
    wallet,         \* on-chain wrapped-native balance of self._account
    allowance,      \* on-chain allowance of self._account to the factory, per token
    op,             \* the coroutine in progress, "idle" when there is none
    pc,             \* the await point the coroutine is suspended at
    token_address,  \* argument of deposit / withdraw / get_token_balance
    amount,         \* argument of deposit / withdraw
    calls,          \* collaborator calls issued by the coroutine, in issue order
    result,         \* value returned to the caller
    error,          \* exception raised to the caller, "none" when there is none
    interfered,     \* another operation changed wallet/allowance during the call
    operator_address,       \* argument of approve_operator / disapprove_operator
    roles,                  \* argument of approve_operator / disapprove_operator
    unsafe_withdraw,        \* argument of approve_operator
    unsafe_launchpad_fill   \* argument of approve_operator

operatorArgs == <<operator_address, roles, unsafe_withdraw, unsafe_launchpad_fill>>
chain == <<clob_factory, wallet, allowance>>
chainArgs == <<token_address, amount, interfered>>

vars == <<clob_factory, wallet, allowance, op, pc, token_address, amount,
          calls, result, error, interfered, operator_address, roles,
          unsafe_withdraw, unsafe_launchpad_fill>>

\* self._config.weth_address and one token that is not the wrapped-native token.
WETH == "weth"
Tokens == {WETH, "erc20"}
Amounts == 1..MaxAmount
Balances == 0..MaxAmount

\* self._clob.get_factory_address(): the deposit-destination spender.
get_factory_address == "factory_address"

\* A collaborator call as issued: the function, its arguments, and what became of it.
Call(fn, token, spender, amt) ==
    [fn |-> fn, token |-> token, spender |-> spender, amount |-> amt,
     status |-> "pending", ret |-> 0]

Last == calls[Len(calls)]

\* `await x` resumes the coroutine only when the awaited call has completed.
\* (variant: the coroutine goes on without waiting, as with send in place of
\* send_wait)
AwaitSkipped == TRUE
Awaited == Len(calls) > 0 /\ Last.status # "pending"

\* get_clob_factory: raises RuntimeError when the factory handle is None.
\* (variant: the None check left out)
get_clob_factory_unchecked == clob_factory
get_clob_factory ==
    IF clob_factory = "None" THEN "RuntimeError" ELSE clob_factory

Raise(e) ==
    /\ pc' = "raised"
    /\ error' = e
    /\ result' = "None"

Issue(c, at) ==
    /\ calls' = Append(calls, c)
    /\ pc' = at

\* ----------------------------------------------------------------- deposit

\* line 93: if weth_token < amount
\* (variant: wraps only an empty wallet)
NeedsWrapWhenEmpty(weth_token, amt) == weth_token = 0
NeedsWrap(weth_token, amt) == weth_token < amt

\* line 94: wrap_amount = amount - weth_token
\* (variant: wraps the whole amount)
wrap_amount_full(weth_token, amt) == amt
wrap_amount(weth_token, amt) == amt - weth_token

\* line 103: if allowance < amount
\* (variant: <= in place of <)
NeedsApproveOrEqual(allowed, amt) == allowed <= amt
NeedsApprove(allowed, amt) == allowed < amt

allowance_call(t) == Call("allowance", t, get_factory_address, 0)
approve_call(t, a) == Call("approve", t, get_factory_address, a)
deposit_call(t, a) == Call("deposit", t, "-", a)

\* lines 88-92 / 102: up to the first await.
deposit(t, a) ==
    /\ op = "idle"
    /\ op' = "deposit"
    /\ token_address' = t
    /\ amount' = a
    /\ interfered' = FALSE
    /\ IF get_clob_factory = "RuntimeError"
         THEN Raise("RuntimeError") /\ UNCHANGED calls
         ELSE /\ IF t = WETH
                   THEN Issue(Call("balance_of", t, "-", 0), "balance_of")
                   ELSE Issue(allowance_call(t), "allowance")
              /\ UNCHANGED <<result, error>>
    /\ UNCHANGED operatorArgs
    /\ UNCHANGED <<clob_factory, wallet, allowance>>

\* lines 92-102: balance_of has returned.
deposit_after_balance_of ==
    /\ op = "deposit" /\ pc = "balance_of" /\ Awaited
    /\ IF Last.status = "err"
         THEN Raise("CollaboratorError") /\ UNCHANGED calls
         ELSE /\ IF NeedsWrap(Last.ret, amount)
                   THEN Issue(Call("deposit_eth", token_address, "-",
                                   wrap_amount(Last.ret, amount)), "wrap_eth")
                   ELSE Issue(allowance_call(token_address), "allowance")
              /\ UNCHANGED <<result, error>>
    /\ UNCHANGED operatorArgs
    /\ UNCHANGED <<clob_factory, wallet, allowance, op, token_address, amount,
                   interfered>>

\* lines 97-102: wrap_eth has returned.
\* (variant: the wrap's exception is swallowed)
deposit_after_wrap_eth_swallow ==
    /\ op = "deposit" /\ pc = "wrap_eth" /\ Awaited
    /\ Issue(allowance_call(token_address), "allowance")
    /\ UNCHANGED operatorArgs
    /\ UNCHANGED <<clob_factory, wallet, allowance, op, token_address, amount,
                   interfered, result, error>>
deposit_after_wrap_eth ==
    /\ op = "deposit" /\ pc = "wrap_eth" /\ Awaited
    /\ IF Last.status = "err"
         THEN Raise("CollaboratorError") /\ UNCHANGED calls
         ELSE /\ Issue(allowance_call(token_address), "allowance")
              /\ UNCHANGED <<result, error>>
    /\ UNCHANGED operatorArgs
    /\ UNCHANGED <<clob_factory, wallet, allowance, op, token_address, amount,
                   interfered>>

\* lines 102-110: allowance has returned.
deposit_after_allowance ==
    /\ op = "deposit" /\ pc = "allowance" /\ Awaited
    /\ IF Last.status = "err"
         THEN Raise("CollaboratorError") /\ UNCHANGED calls
         ELSE /\ IF NeedsApprove(Last.ret, amount)
                   THEN Issue(approve_call(token_address, amount), "approve")
                   ELSE Issue(deposit_call(token_address, amount), "deposit")
              /\ UNCHANGED <<result, error>>
    /\ UNCHANGED operatorArgs
    /\ UNCHANGED <<clob_factory, wallet, allowance, op, token_address, amount,
                   interfered>>

\* lines 105-110: the approval has returned.
deposit_after_approve ==
    /\ op = "deposit" /\ pc = "approve" /\ Awaited
    /\ IF Last.status = "err"
         THEN Raise("CollaboratorError") /\ UNCHANGED calls
         ELSE /\ Issue(deposit_call(token_address, amount), "deposit")
              /\ UNCHANGED <<result, error>>
    /\ UNCHANGED operatorArgs
    /\ UNCHANGED <<clob_factory, wallet, allowance, op, token_address, amount,
                   interfered>>

\* lines 110-116: the deposit transaction has returned; deposit returns None.
deposit_after_deposit ==
    /\ op = "deposit" /\ pc = "deposit" /\ Awaited
    /\ IF Last.status = "err"
         THEN Raise("CollaboratorError")
         ELSE pc' = "done" /\ result' = "None" /\ UNCHANGED error
    /\ UNCHANGED operatorArgs
    /\ UNCHANGED <<clob_factory, wallet, allowance, op, token_address, amount,
                   interfered, calls>>

\* ---------------------------------------------------------------- withdraw

\* lines 133-138, up to the await.
withdraw(t, a) ==
    /\ op = "idle"
    /\ op' = "withdraw"
    /\ token_address' = t
    /\ amount' = a
    /\ IF get_clob_factory = "RuntimeError"
         THEN Raise("RuntimeError") /\ UNCHANGED calls
         ELSE /\ Issue(Call("withdraw", t, "-", a), "withdraw")
              /\ UNCHANGED <<result, error>>
    /\ UNCHANGED operatorArgs
    /\ UNCHANGED <<clob_factory, wallet, allowance, interfered>>

\* line 136: return the transaction's result.
withdraw_after_withdraw ==
    /\ op = "withdraw" /\ pc = "withdraw" /\ Awaited
    /\ IF Last.status = "err"
         THEN Raise("CollaboratorError")
         ELSE pc' = "done" /\ result' = "receipt" /\ UNCHANGED error
    /\ UNCHANGED operatorArgs
    /\ UNCHANGED <<clob_factory, wallet, allowance, op, token_address, amount,
                   interfered, calls>>

\* ------------------------------------------------------- get_token_balance

\* lines 189-192, up to the await.
get_token_balance(t) ==
    /\ op = "idle"
    /\ op' = "get_token_balance"
    /\ token_address' = t
    /\ IF get_clob_factory = "RuntimeError"
         THEN Raise("RuntimeError") /\ UNCHANGED calls
         ELSE /\ Issue(Call("get_account_balance", t, "-", 0), "get_account_balance")
              /\ UNCHANGED <<result, error>>
    /\ UNCHANGED operatorArgs
    /\ UNCHANGED <<clob_factory, wallet, allowance, amount, interfered>>

\* line 194: return exchange_balance_raw.
get_token_balance_after_read ==
    /\ op = "get_token_balance" /\ pc = "get_account_balance" /\ Awaited
    /\ IF Last.status = "err"
         THEN Raise("CollaboratorError")
         ELSE pc' = "done" /\ result' = Last.ret /\ UNCHANGED error
    /\ UNCHANGED operatorArgs
    /\ UNCHANGED <<clob_factory, wallet, allowance, op, token_address, amount,
                   interfered, calls>>

\* The caller has the result (or the exception); the facade keeps nothing.
Return ==
    /\ pc \in {"done", "raised"}
    /\ op' = "idle" /\ pc' = "idle"
    /\ calls' = <<>>
    /\ result' = "None" /\ error' = "none"
    /\ token_address' = WETH /\ amount' = 1
    /\ interfered' = FALSE
    /\ operator_address' = "None" /\ roles' = <<>>
    /\ unsafe_withdraw' = FALSE /\ unsafe_launchpad_fill' = FALSE
    /\ UNCHANGED <<clob_factory, wallet, allowance>>

\* ------------------------------------------------------------ collaborators

Pending == {i \in 1..Len(calls) : calls[i].status = "pending"}

Complete(i, st, r) ==
    calls' = [calls EXCEPT ![i] = [@ EXCEPT !.status = st, !.ret = r]]

\* ERC-20 balanceOf / allowance and the factory's account balance: a read
\* returns the chain's value at the time it completes.
ReadValue(c) ==
    IF c.fn = "balance_of" THEN {wallet}
    ELSE IF c.fn = "allowance" THEN {allowance[c.token]}
    ELSE Balances

ReadReturns ==
    \E i \in Pending :
        /\ calls[i].fn \in {"balance_of", "allowance", "get_account_balance"}
        /\ \E v \in ReadValue(calls[i]) : Complete(i, "ok", v)
        /\ UNCHANGED operatorArgs
        /\ UNCHANGED <<clob_factory, wallet, allowance, op, pc, token_address,
                       amount, result, error, interfered>>

\* The wallet balance of a token other than the wrapped-native one is not
\* tracked: its deposit is only required to be covered by the allowance.
TxCanSucceed(c) ==
    IF c.fn = "deposit"
      THEN allowance[c.token] >= c.amount /\ (c.token = WETH => wallet >= c.amount)
      ELSE TRUE

\* WETH.deposit mints the wrapped amount; approve sets the allowance; the
\* factory's deposit pulls the amount from the wallet against the allowance.
TxWallet(c) ==
    IF c.fn = "deposit_eth" THEN wallet + c.amount
    ELSE IF c.fn = "deposit" /\ c.token = WETH THEN wallet - c.amount
    ELSE wallet

TxAllowance(c) ==
    IF c.fn = "approve" THEN [allowance EXCEPT ![c.token] = c.amount]
    ELSE IF c.fn = "deposit" THEN [allowance EXCEPT ![c.token] = @ - c.amount]
    ELSE allowance

\* send_wait: the transaction is mined and its receipt returned.
TxConfirmed ==
    \E i \in Pending :
        /\ calls[i].fn \in {"deposit_eth", "approve", "deposit", "withdraw"}
        /\ TxCanSucceed(calls[i])
        /\ Complete(i, "ok", 0)
        /\ wallet' = TxWallet(calls[i])
        /\ allowance' = TxAllowance(calls[i])
        /\ UNCHANGED operatorArgs
        /\ UNCHANGED <<clob_factory, op, pc, token_address, amount, result,
                       error, interfered>>

\* A network error or a revert: the collaborator call raises.
CallFails ==
    \E i \in Pending :
        /\ Complete(i, "err", 0)
        /\ UNCHANGED operatorArgs
        /\ UNCHANGED <<clob_factory, wallet, allowance, op, pc, token_address,
                       amount, result, error, interfered>>

\* Another operation on the same account (a transfer, an approval) lands
\* while a deposit call is in progress.
Interfere ==
    /\ op = "deposit" /\ pc \notin {"done", "raised"}
    /\ \E w \in Balances, t \in Tokens, x \in Balances :
        /\ wallet' = w
        /\ allowance' = [allowance EXCEPT ![t] = x]
        /\ <<w, allowance'>> # <<wallet, allowance>>
    /\ interfered' = TRUE
    /\ UNCHANGED operatorArgs
    /\ UNCHANGED <<clob_factory, op, pc, token_address, amount, calls, result,
                   error>>

\* ---------------------------------------------------------------- operators

\* Longest role list passed to approve_operator / disapprove_operator.
MaxRoles == 3

\* OperatorRole (gte_py.api.chain.structs): permission bits.  WITHDRAW and
\* LAUNCHPAD_FILL are the two gated roles; OTHER_ROLE stands for a role that
\* is not gated.
OperatorRole == {"OTHER_ROLE", "WITHDRAW", "LAUNCHPAD_FILL"}

RoleValue(r) ==
    CASE r = "OTHER_ROLE" -> 1
      [] r = "WITHDRAW" -> 4
      [] r = "LAUNCHPAD_FILL" -> 8

RoleLists == UNION {[1..n -> OperatorRole] : n \in 0..MaxRoles}
Operators == {"0xOperatorA", "0xOperatorB"}

\* Python's a | b on non-negative integers.
RECURSIVE BitOr(_, _)
BitOr(a, b) ==
    IF a = 0 THEN b
    ELSE IF b = 0 THEN a
    ELSE (IF a % 2 = 1 \/ b % 2 = 1 THEN 1 ELSE 0) + 2 * BitOr(a \div 2, b \div 2)

\* lines 196-200: roles_int = 0; for role in roles: roles_int |= role.value
\* (variant: += in place of |=)
RECURSIVE encode_rules_sum(_)
encode_rules_sum(rs) ==
    IF rs = <<>> THEN 0
    ELSE encode_rules_sum(SubSeq(rs, 1, Len(rs) - 1)) + RoleValue(rs[Len(rs)])
RECURSIVE _encode_rules(_)
_encode_rules(rs) ==
    IF rs = <<>> THEN 0
    ELSE BitOr(_encode_rules(SubSeq(rs, 1, Len(rs) - 1)), RoleValue(rs[Len(rs)]))

\* `role in roles`: list membership.
InList(r, rs) == \E i \in 1..Len(rs) : rs[i] = r

\* lines 220-223: the two opt-in guards of approve_operator.
\* (variant: both guards test unsafe_withdraw)
role_guard_one_flag(rs, uw, ulf) ==
    \/ InList("WITHDRAW", rs) /\ ~uw
    \/ InList("LAUNCHPAD_FILL", rs) /\ ~uw
role_guard(rs, uw, ulf) ==
    \/ InList("WITHDRAW", rs) /\ ~uw
    \/ InList("LAUNCHPAD_FILL", rs) /\ ~ulf

ManagerCall(fn, operator, roles_int) ==
    [fn |-> fn, operator |-> operator, roles |-> roles_int,
     status |-> "pending", ret |-> 0]

\* lines 220-231, up to the await.
approve_operator(o, rs, uw, ulf) ==
    /\ op = "idle"
    /\ op' = "approve_operator"
    /\ operator_address' = o
    /\ roles' = rs
    /\ unsafe_withdraw' = uw
    /\ unsafe_launchpad_fill' = ulf
    /\ IF role_guard(rs, uw, ulf)
         THEN Raise("ValueError") /\ UNCHANGED calls
         ELSE /\ Issue(ManagerCall("approve_operator", o, _encode_rules(rs)),
                       "approve_operator")
              /\ UNCHANGED <<result, error>>
    /\ UNCHANGED <<chain, chainArgs>>

\* lines 247-253, up to the await: no gating.
disapprove_operator(o, rs) ==
    /\ op = "idle"
    /\ op' = "disapprove_operator"
    /\ operator_address' = o
    /\ roles' = rs
    /\ Issue(ManagerCall("disapprove_operator", o, _encode_rules(rs)),
             "disapprove_operator")
    /\ UNCHANGED <<chain, chainArgs, unsafe_withdraw, unsafe_launchpad_fill,
                   result, error>>

\* lines 227-231 / 249-253: return the transaction's result.
operator_after_send_wait ==
    /\ op \in {"approve_operator", "disapprove_operator"}
    /\ pc = op /\ Awaited
    /\ IF Last.status = "err"
         THEN Raise("CollaboratorError")
         ELSE pc' = "done" /\ result' = "receipt" /\ UNCHANGED error
    /\ UNCHANGED <<chain, chainArgs, operatorArgs, op, calls>>

\* send_wait on the CLOB manager: the transaction is mined.
ManagerTxConfirmed ==
    \E i \in Pending :
        /\ calls[i].fn \in {"approve_operator", "disapprove_operator"}
        /\ Complete(i, "ok", 0)
        /\ UNCHANGED <<chain, chainArgs, operatorArgs, op, pc, result, error>>

\* --------------------------------------------------------------------- REST

\* Most records in one page of the open-orders response.
MaxOrders == 2

\* Decimal strings as the REST API sends them, as sequences of characters.
NumStrings == {<<"0">>, <<"7">>, <<"1", "0">>, <<"0", "3">>}

DigitValue(c) ==
    CASE c = "0" -> 0 [] c = "1" -> 1 [] c = "2" -> 2 [] c = "3" -> 3
      [] c = "4" -> 4 [] c = "5" -> 5 [] c = "6" -> 6 [] c = "7" -> 7
      [] c = "8" -> 8 [] c = "9" -> 9

\* Python's int(str) on a string of decimal digits.
RECURSIVE int(_)
int(s) ==
    IF s = <<>> THEN 0
    ELSE 10 * int(SubSeq(s, 1, Len(s) - 1)) + DigitValue(s[Len(s)])

\* eth_utils.to_checksum_address: the mixed-case form of an address.
to_checksum_address(a) == IF a = "0xmarket" THEN "0xMarket" ELSE a

\* OrderSide.from_str (gte_py.models): the side parsed from its tag.
OrderSide_from_str(tag) == IF tag = "buy" THEN "BUY" ELSE "SELL"

\* The raw records of get_user_open_orders.
OpenOrderRecords ==
    [orderId : {<<"4", "2">>}, marketAddress : {"0xmarket"},
     side : {"buy", "sell"}, originalSize : NumStrings, sizeFilled : NumStrings,
     limitPrice : {<<"1", "0">>}, placedAt : {<<"9">>}]

OpenOrderResponses == UNION {[1..n -> OpenOrderRecords] : n \in 0..MaxOrders}

\* lines 305-317: one Order per record.
\* (variant: remaining_amount without the filled size subtracted)
OrderNoRemaining(data) ==
    [order_id |-> int(data.orderId),
     market_address |-> to_checksum_address(data.marketAddress),
     side |-> OrderSide_from_str(data.side),
     order_type |-> "LIMIT",
     remaining_amount |-> int(data.originalSize),
     original_amount |-> int(data.originalSize),
     filled_amount |-> int(data.sizeFilled),
     price |-> int(data.limitPrice),
     time_in_force |-> "GTC",
     status |-> "OPEN",
     placed_at |-> int(data.placedAt)]
Order(data) ==
    [order_id |-> int(data.orderId),
     market_address |-> to_checksum_address(data.marketAddress),
     side |-> OrderSide_from_str(data.side),
     order_type |-> "LIMIT",
     remaining_amount |-> int(data.originalSize) - int(data.sizeFilled),
     original_amount |-> int(data.originalSize),
     filled_amount |-> int(data.sizeFilled),
     price |-> int(data.limitPrice),
     time_in_force |-> "GTC",
     status |-> "OPEN",
     placed_at |-> int(data.placedAt)]

RestCall(fn, market) ==
    [fn |-> fn, market |-> market, limit |-> 100, offset |-> 0,
     status |-> "pending", ret |-> 0]

\* lines 300-301, up to the await; `market and market.address`.
get_open_orders(market) ==
    /\ op = "idle"
    /\ op' = "get_open_orders"
    /\ Issue(RestCall("get_user_open_orders", market), "get_user_open_orders")
    /\ UNCHANGED <<chain, chainArgs, operatorArgs, result, error>>

\* lines 304-318: map the response, record by record.
get_open_orders_after_rest ==
    /\ op = "get_open_orders" /\ pc = "get_user_open_orders" /\ Awaited
    /\ IF Last.status = "err"
         THEN Raise("CollaboratorError")
         ELSE /\ pc' = "done"
              /\ result' = [i \in 1..Len(Last.ret) |-> Order(Last.ret[i])]
              /\ UNCHANGED error
    /\ UNCHANGED <<chain, chainArgs, operatorArgs, op, calls>>

\* A JSON number of the portfolio: an integer, a float (kept in hundredths),
\* or a decimal string.
UsdValues ==
    {[type |-> "int", val |-> 0], [type |-> "int", val |-> 7],
     [type |-> "float", hundredths |-> 1250], [type |-> "float", hundredths |-> 0],
     [type |-> "str", chars |-> <<"0", "3">>]}

\* The portfolio mappings: each key may be absent.
Portfolios ==
    {[k \in {"totalUsdBalance"} |-> v] : v \in UsdValues}
      \cup {[k \in {"totalUsdBalance", "tokens"} |->
                IF k = "tokens" THEN <<>> ELSE v] : v \in UsdValues}
      \cup {[k \in {"tokens"} |-> <<>>], [k \in {"other"} |-> <<>>]}

\* dict.get(key, default)
\* (variant: the default dropped, as with get(key))
dict_get_none(d, key, default) ==
    IF key \in DOMAIN d THEN d[key] ELSE [type |-> "None"]
dict_get(d, key, default) ==
    IF key \in DOMAIN d THEN d[key] ELSE default

\* Python's float(x).
float(x) ==
    CASE x.type = "int" -> [type |-> "float", hundredths |-> 100 * x.val]
      [] x.type = "float" -> x
      [] x.type = "str" -> [type |-> "float", hundredths |-> 100 * int(x.chars)]
      [] OTHER -> [type |-> "TypeError"]

\* line 147 / 166, up to the await.
get_total_usd_balance ==
    /\ op = "idle"
    /\ op' = "get_total_usd_balance"
    /\ Issue(RestCall("get_user_portfolio", "-"), "get_user_portfolio")
    /\ UNCHANGED <<chain, chainArgs, operatorArgs, result, error>>

\* line 167: float(portfolio.get("totalUsdBalance", 0))
get_total_usd_balance_after_rest ==
    /\ op = "get_total_usd_balance" /\ pc = "get_user_portfolio" /\ Awaited
    /\ IF Last.status = "err"
         THEN Raise("CollaboratorError")
         ELSE LET v == float(dict_get(Last.ret, "totalUsdBalance",
                                      [type |-> "int", val |-> 0]))
              IN  IF v.type = "TypeError"
                    THEN Raise("TypeError")
                    ELSE pc' = "done" /\ result' = v /\ UNCHANGED error
    /\ UNCHANGED <<chain, chainArgs, operatorArgs, op, calls>>

\* The REST client's response arrives.
RestReturns ==
    \E i \in Pending :
        /\ \E r \in (IF calls[i].fn = "get_user_portfolio"
                       THEN Portfolios ELSE OpenOrderResponses) :
              Complete(i, "ok", r)
        /\ UNCHANGED <<chain, chainArgs, operatorArgs, op, pc, result, error>>

\* ------------------------------------------------------------ specification

Idle ==
    /\ op = "idle" /\ pc = "idle"
    /\ calls = <<>>
    /\ result = "None" /\ error = "none"
    /\ token_address = WETH /\ amount = 1
    /\ interfered = FALSE
    /\ operator_address = "None" /\ roles = <<>>
    /\ unsafe_withdraw = FALSE /\ unsafe_launchpad_fill = FALSE

Init ==
    /\ clob_factory \in {"None", "CLOBFactory"}
    /\ wallet \in Balances
    /\ allowance \in [Tokens -> Balances]
    /\ Idle

Next ==
    \/ \E t \in Tokens, a \in Amounts : deposit(t, a)
    \/ deposit_after_balance_of
    \/ deposit_after_wrap_eth
    \/ deposit_after_allowance
    \/ deposit_after_approve
    \/ deposit_after_deposit
    \/ \E t \in Tokens, a \in Amounts : withdraw(t, a)
    \/ withdraw_after_withdraw
    \/ \E t \in Tokens : get_token_balance(t)
    \/ get_token_balance_after_read
    \/ Return
    \/ ReadReturns
    \/ TxConfirmed
    \/ CallFails
    \/ Interfere

Spec == Init /\ [][Next]_vars

\* The facade right after construction, with the CLOB client initialized and
\* nothing on chain: the operator and REST coroutines read neither.
InitFacade ==
    /\ clob_factory = "CLOBFactory"
    /\ wallet = 0
    /\ allowance = [t \in Tokens |-> 0]
    /\ Idle

NextOperator ==
    \/ \E o \in Operators, rs \in RoleLists, uw \in BOOLEAN, ulf \in BOOLEAN :
          approve_operator(o, rs, uw, ulf)
    \/ \E o \in Operators, rs \in RoleLists : disapprove_operator(o, rs)
    \/ operator_after_send_wait
    \/ ManagerTxConfirmed
    \/ CallFails
    \/ Return

SpecOperator == InitFacade /\ [][NextOperator]_vars

NextRest ==
    \/ \E m \in {"None", "0xmarket"} : get_open_orders(m)
    \/ get_open_orders_after_rest
    \/ get_total_usd_balance
    \/ get_total_usd_balance_after_rest
    \/ RestReturns
    \/ CallFails
    \/ Return

SpecRest == InitFacade /\ [][NextRest]_vars

\* ------------------------------------------------------------------ claims

CallsOf(fns) == {i \in 1..Len(calls) : calls[i].fn \in fns}

\* The await point a coroutine is suspended at after issuing `fn`.
AwaitPoint(fn) == IF fn = "deposit_eth" THEN "wrap_eth" ELSE fn

\* C2: in a deposit of the wrapped-native token, once the balance read b has
\* been consumed: if b < amount there is exactly one wrap, of amount - b, and
\* it precedes every approval and deposit transaction; if b >= amount there
\* is no wrap.  No wrap is issued before the balance has been read.
C2_WrapShortfall ==
    (op = "deposit" /\ token_address = WETH) =>
        LET reads == {i \in CallsOf({"balance_of"}) :
                        calls[i].status = "ok" /\ pc # "balance_of"}
            wraps == CallsOf({"deposit_eth"})
            later == CallsOf({"approve", "deposit"})
        IN  /\ reads = {} => (wraps = {} /\ later = {})
            /\ \A r \in reads :
                 IF calls[r].ret < amount
                   THEN /\ Cardinality(wraps) = 1
                        /\ \A w \in wraps :
                             /\ calls[w].amount = amount - calls[r].ret
                             /\ calls[w].token = WETH
                             /\ r < w
                             /\ \A l \in later : w < l
                   ELSE wraps = {}

C2_Witness ==
    /\ op = "deposit" /\ token_address = WETH /\ amount = 3
    /\ Len(calls) >= 4
    /\ calls[1].fn = "balance_of" /\ calls[1].ret = 1
    /\ calls[2].fn = "deposit_eth" /\ calls[2].amount = 2
    /\ Last.fn = "deposit"

Rank(fn) ==
    CASE fn = "balance_of" -> 0
      [] fn = "deposit_eth" -> 1
      [] fn = "allowance" -> 2
      [] fn = "approve" -> 3
      [] fn = "deposit" -> 4
      [] OTHER -> 5

\* C3: within one deposit call the collaborator calls are issued in the order
\* wrap, approve, deposit, and a call is issued only when every call issued
\* before it has been confirmed: at most one is in flight.
C3_Sequential ==
    op = "deposit" =>
        /\ \A i, j \in 1..Len(calls) :
             i < j => Rank(calls[i].fn) < Rank(calls[j].fn)
        /\ \A i \in 1..Len(calls) : i < Len(calls) => calls[i].status = "ok"
        /\ Cardinality(Pending) <= 1

C3_Witness ==
    /\ op = "deposit"
    /\ CallsOf({"deposit_eth"}) # {}
    /\ CallsOf({"approve"}) # {}
    /\ CallsOf({"deposit"}) # {}
    /\ Last.status = "pending"

\* C4: a deposit transaction is preceded by a completed allowance read for
\* the factory spender; if the value read is >= amount no approval is issued,
\* otherwise exactly one approval, of the full amount and for that spender,
\* is issued after the read and confirmed before the deposit transaction.
C4_AllowanceCheck ==
    op = "deposit" =>
        LET reads == CallsOf({"allowance"})
            approvals == CallsOf({"approve"})
            deposits == CallsOf({"deposit"})
        IN  /\ \A d \in deposits :
                 \E r \in reads :
                    /\ r < d
                    /\ calls[r].status = "ok"
                    /\ calls[r].token = token_address
                    /\ calls[r].spender = get_factory_address
                    /\ calls[r].ret < amount =>
                         /\ Cardinality(approvals) = 1
                         /\ \A p \in approvals :
                              /\ r < p /\ p < d
                              /\ calls[p].status = "ok"
                              /\ calls[p].amount = amount
                              /\ calls[p].token = token_address
                              /\ calls[p].spender = get_factory_address
            /\ \A p \in approvals :
                 \E r \in reads :
                    r < p /\ calls[r].status = "ok" /\ calls[r].ret < amount
            /\ Cardinality(reads) <= 1

C4_Witness ==
    /\ op = "deposit" /\ amount = 2
    /\ \E r \in CallsOf({"allowance"}) : calls[r].ret = 1
    /\ \E p \in CallsOf({"approve"}) : calls[p].status = "ok"
    /\ Last.fn = "deposit"

\* C8: with the factory handle uninitialized, deposit, withdraw and
\* get_token_balance raise RuntimeError (not the role guard's ValueError)
\* and issue no collaborator call.
C8_Uninitialized ==
    (clob_factory = "None" /\ op \in {"deposit", "withdraw", "get_token_balance"}) =>
        /\ pc = "raised"
        /\ error = "RuntimeError"
        /\ error # "ValueError"
        /\ calls = <<>>

C8_Witness ==
    /\ clob_factory = "None"
    /\ op = "deposit"
    /\ error = "RuntimeError"

\* C9: in one deposit call every step is issued at most once; a failed step
\* is the last one issued, its failure is what the caller gets, and the call
\* never completes normally after a failure.
C9_NoRetry ==
    op = "deposit" =>
        /\ \A i, j \in 1..Len(calls) : calls[i].fn = calls[j].fn => i = j
        /\ \A i \in 1..Len(calls) :
             calls[i].status = "err" =>
                /\ i = Len(calls)
                /\ pc \in {AwaitPoint(calls[i].fn), "raised"}
                /\ pc = "raised" => error = "CollaboratorError"
        /\ pc = "done" => \A i \in 1..Len(calls) : calls[i].status = "ok"

C9_Witness ==
    /\ op = "deposit" /\ pc = "raised" /\ error = "CollaboratorError"
    /\ Len(calls) = 2
    /\ Last.fn = "deposit_eth" /\ Last.status = "err"

\* C10: while the deposit transaction of an undisturbed call is in flight,
\* the allowance to the factory covers the amount and, for the wrapped-native
\* token, so does the wallet balance; for another token the call reads no
\* wallet balance and issues no wrap.
C10_DepositPreconditions ==
    op = "deposit" =>
        /\ (Len(calls) > 0 /\ Last.fn = "deposit" /\ Last.status = "pending"
              /\ ~interfered) =>
                /\ allowance[token_address] >= amount
                /\ token_address = WETH => wallet >= amount
        /\ token_address # WETH => CallsOf({"balance_of", "deposit_eth"}) = {}

C10_Witness ==
    /\ op = "deposit" /\ token_address = WETH /\ ~interfered
    /\ CallsOf({"deposit_eth"}) # {}
    /\ CallsOf({"approve"}) # {}
    /\ Last.fn = "deposit" /\ Last.status = "pending"
    /\ wallet = amount /\ allowance[WETH] = amount

\* C1: approve_operator with WITHDRAW in the list and unsafe_withdraw false,
\* or LAUNCHPAD_FILL in the list and unsafe_launchpad_fill false, raises
\* ValueError and issues no call to the contract manager; otherwise exactly
\* one approve_operator call, for that operator, is issued.
C1_RoleGuard ==
    op = "approve_operator" =>
        IF \/ (\E i \in 1..Len(roles) : roles[i] = "WITHDRAW") /\ ~unsafe_withdraw
           \/ (\E i \in 1..Len(roles) : roles[i] = "LAUNCHPAD_FILL")
                /\ ~unsafe_launchpad_fill
          THEN pc = "raised" /\ error = "ValueError" /\ calls = <<>>
          ELSE /\ Len(calls) = 1
               /\ calls[1].fn = "approve_operator"
               /\ calls[1].operator = operator_address

C1_Witness ==
    /\ op = "approve_operator"
    /\ roles = <<"OTHER_ROLE", "LAUNCHPAD_FILL">>
    /\ unsafe_withdraw /\ ~unsafe_launchpad_fill
    /\ error = "ValueError"

\* The OR of a set of role values, bit by bit: bit k is set exactly when some
\* role of the set has it.
SetOr(S) ==
    LET bit(k, w) == IF \E r \in S : (RoleValue(r) \div w) % 2 = 1 THEN w ELSE 0
    IN  bit(0, 1) + bit(1, 2) + bit(2, 4) + bit(3, 8)

\* C5: the integer sent to the contract manager depends only on the set of
\* roles in the list: every list with the same set of roles (any permutation,
\* any repetition) encodes to it, it is the OR of the distinct roles' bit
\* values, and the empty list encodes to zero.
C5_EncodeSet ==
    (op \in {"approve_operator", "disapprove_operator"} /\ calls # <<>>) =>
        /\ calls[1].roles = SetOr({roles[i] : i \in 1..Len(roles)})
        /\ \A rs \in RoleLists :
             {rs[i] : i \in 1..Len(rs)} = {roles[i] : i \in 1..Len(roles)}
                => _encode_rules(rs) = calls[1].roles
        /\ roles = <<>> => calls[1].roles = 0

C5_Witness ==
    /\ op = "disapprove_operator"
    /\ roles = <<"WITHDRAW", "WITHDRAW", "OTHER_ROLE">>
    /\ calls # <<>>
    /\ calls[1].roles = 5

\* The number a string of decimal digits denotes: the sum of its digits, each
\* weighted by its place.
RECURSIVE Pow10(_)
Pow10(n) == IF n = 0 THEN 1 ELSE 10 * Pow10(n - 1)

RECURSIVE PlaceSum(_, _)
PlaceSum(s, k) ==
    IF k > Len(s) THEN 0
    ELSE DigitValue(s[k]) * Pow10(Len(s) - k) + PlaceSum(s, k + 1)

\* C6: get_open_orders returns one order per record of the response, in the
\* same position, with remaining_amount = original_amount - filled_amount
\* (the integer values of originalSize and sizeFilled), status OPEN,
\* time-in-force GTC and type LIMIT.
C6_OpenOrders ==
    (op = "get_open_orders" /\ pc = "done") =>
        LET response == calls[1].ret
        IN  /\ Len(result) = Len(response)
            /\ \A i \in 1..Len(response) :
                 /\ result[i].original_amount = PlaceSum(response[i].originalSize, 1)
                 /\ result[i].filled_amount = PlaceSum(response[i].sizeFilled, 1)
                 /\ result[i].remaining_amount =
                      PlaceSum(response[i].originalSize, 1)
                        - PlaceSum(response[i].sizeFilled, 1)
                 /\ result[i].remaining_amount =
                      result[i].original_amount - result[i].filled_amount
                 /\ result[i].status = "OPEN"
                 /\ result[i].time_in_force = "GTC"
                 /\ result[i].order_type = "LIMIT"

C6_Witness ==
    /\ op = "get_open_orders" /\ pc = "done"
    /\ Len(result) = 2
    /\ calls[1].ret[1].originalSize = <<"1", "0">>
    /\ calls[1].ret[1].sizeFilled = <<"0", "3">>
    /\ result[1].remaining_amount = 7
    /\ calls[1].ret[2].originalSize = <<"7">>
    /\ result[2].remaining_amount = 0

\* C7: get_total_usd_balance issues exactly one portfolio request; when the
\* response has no totalUsdBalance it returns 0.0 and does not fail, and when
\* it has one it returns that value as a float.
C7_TotalUsd ==
    op = "get_total_usd_balance" =>
        /\ Len(calls) = 1
        /\ calls[1].fn = "get_user_portfolio"
        /\ pc = "raised" => calls[1].status = "err"
        /\ pc = "done" =>
             LET portfolio == calls[1].ret
             IN  IF "totalUsdBalance" \notin DOMAIN portfolio
                   THEN result = [type |-> "float", hundredths |-> 0]
                   ELSE LET v == portfolio["totalUsdBalance"]
                        IN  /\ result.type = "float"
                            /\ result.hundredths =
                                 CASE v.type = "int" -> 100 * v.val
                                   [] v.type = "float" -> v.hundredths
                                   [] v.type = "str" -> 100 * PlaceSum(v.chars, 1)

C7_Witness ==
    /\ op = "get_total_usd_balance" /\ pc = "done"
    /\ DOMAIN calls[1].ret = {"tokens"}
    /\ result = [type |-> "float", hundredths |-> 0]

====
